---- MODULE Spec2Model ----
(***************************************************************************)
(* The L2a tape-loop runtime of src/src/moop_enhanced.c: a bit register,   *)
(* a circular tape of recorded gates with fitness metadata, evolutionary   *)
(* pruning, checkpoint/restore and the raw tape accessors.                 *)
(*                                                                         *)
(* Representation.                                                         *)
(*  - The runtime struct L2a_Runtime is one record, held in variable rt;   *)
(*    the C functions are operators from a runtime (and arguments) to the  *)
(*    runtime they leave behind.                                           *)
(*  - float values (fitness, weights, keep fraction) are fixed-point       *)
(*    integers in units of 1/Scale.                                        *)
(*  - uint32_t counters are kept modulo UintMod, which is narrower than   *)
(*    2^32 because the checker's integers are 32-bit signed, and which,    *)
(*    like 2^32 for the header's tape size, is a multiple of L1_TAPE_SIZE. *)
(*  - L1_TAPE_SIZE is 1024 in the header; the model runs a smaller tape.   *)
(*    The operators take the extent of the tape from the tape itself, so   *)
(*    that the module also holds the build with a tape of 8 entries that   *)
(*    the pruning scenario is about.                                       *)
(***************************************************************************)
EXTENDS Integers, Sequences, FiniteSets, TLC

L1_TAPE_SIZE == 4

Scale == 1000

UintMod == L1_TAPE_SIZE * 2^14

MaxSteps == 6

MaxOther == 2

TapeIdx == 0 .. (L1_TAPE_SIZE - 1)

(***************************************************************************)
(* R_Cell and Tape_Entry                                                   *)
(***************************************************************************)
R_Cell(g, a, b, c) == [gate |-> g, a |-> a, b |-> b, c |-> c]

Tape_Entry(cell, fitness, last_used, essential) ==
    [cell |-> cell, fitness |-> fitness, last_used |-> last_used, essential |-> essential]

ZeroEntry == Tape_Entry(R_Cell(0, 0, 0, 0), 0, 0, FALSE)

(***************************************************************************)
(* l2a_init                                                                *)
(***************************************************************************)
\* The number of entries of a tape (L1_TAPE_SIZE of the build that allocated it).
TapeSize(tape) == Cardinality(DOMAIN tape)

l2a_init_sized(qubits, size) ==
    [ qubits         |-> [i \in 0 .. (qubits - 1) |-> 0],
      tape           |-> [i \in 0 .. (size - 1) |-> ZeroEntry],
      tape_head      |-> 0,
      qubit_count    |-> qubits,
      total_ops      |-> 0,
      tape_wrapped   |-> FALSE,
      pruning_cycles |-> 0,
      last_prune_op  |-> 0,
      fitness_params |-> [ recency_weight  |-> (5 * Scale) \div 10,
                           activity_weight |-> (3 * Scale) \div 10,
                           gate_weight     |-> (2 * Scale) \div 10,
                           prune_interval  |-> 256,
                           prune_threshold |-> (75 * Scale) \div 100 ] ]

l2a_init(qubits) == l2a_init_sized(qubits, L1_TAPE_SIZE)

(***************************************************************************)
(* The effect of the four gates on the register (the first statement of    *)
(* l2a_CCNOT, l2a_CNOT, l2a_NOT, l2a_SWAP).                                *)
(***************************************************************************)
Flip(q, i) == [q EXCEPT ![i] = 1 - q[i]]

CCNOT_bits(q, a, b, c) == IF q[a] # 0 /\ q[b] # 0 THEN Flip(q, c) ELSE q

CNOT_bits(q, a, b) == IF q[a] # 0 THEN Flip(q, b) ELSE q

NOT_bits(q, a) == Flip(q, a)

\* SWAP without the temporary: both cells end up holding q[b].
SWAP_bits_NoTemp(q, a, b) == [[q EXCEPT ![a] = q[b]] EXCEPT ![b] = q[b]]

SWAP_bits(q, a, b) ==
    LET t  == q[a]
        q1 == [q EXCEPT ![a] = q[b]]
    IN  [q1 EXCEPT ![b] = t]

(***************************************************************************)
(* l2a_compute_fitness                                                     *)
(***************************************************************************)
\* The recency term without its decay.
Recency_Flat(age) == Scale

Recency(age) ==
    IF age = 0 THEN Scale ELSE (Scale * Scale) \div (Scale + (age * Scale) \div 100)

QubitActivity(r, cell) ==
      (IF cell.a < r.qubit_count /\ r.qubits[cell.a] # 0 THEN (3 * Scale) \div 10 ELSE 0)
    + (IF cell.b < r.qubit_count /\ r.qubits[cell.b] # 0 THEN (3 * Scale) \div 10 ELSE 0)
    + (IF cell.c < r.qubit_count /\ r.qubits[cell.c] # 0 THEN (2 * Scale) \div 10 ELSE 0)

GatePriority(gate) ==
    CASE gate = 0 -> (4 * Scale) \div 10
      [] gate = 1 -> (3 * Scale) \div 10
      [] gate = 3 -> (2 * Scale) \div 10
      [] gate = 2 -> (1 * Scale) \div 10
      [] OTHER    -> 0

l2a_compute_fitness(r, index) ==
    LET entry   == r.tape[index]
        age     == (r.total_ops - entry.last_used) % UintMod
        fitness == (  r.fitness_params.recency_weight  * Recency(age)
                    + r.fitness_params.activity_weight * QubitActivity(r, entry.cell)
                    + r.fitness_params.gate_weight     * GatePriority(entry.cell.gate) ) \div Scale
    IN  IF entry.essential THEN Scale ELSE fitness

(***************************************************************************)
(* l2a_mark_essential                                                      *)
(***************************************************************************)
\* Marking that sets the flag and leaves the stored fitness alone.
l2a_mark_essential_FlagOnly(r, index) ==
    [r EXCEPT !.tape[index % TapeSize(r.tape)].essential = TRUE]

l2a_mark_essential(r, index) ==
    [r EXCEPT !.tape[index % TapeSize(r.tape)].essential = TRUE,
              !.tape[index % TapeSize(r.tape)].fitness   = Scale]

(***************************************************************************)
(* l2a_prune_tape                                                          *)
(***************************************************************************)
RecomputeAll(r) ==
    [r EXCEPT !.tape = [i \in DOMAIN r.tape |->
        IF r.tape[i].essential THEN r.tape[i]
        ELSE [r.tape[i] EXCEPT !.fitness = l2a_compute_fitness(r, i)]]]

\* The swap test of an ascending sort.
SortSwaps_Ascending(x, y) == x.fitness > y.fitness

\* The swap test that also swaps entries of equal fitness.
SortSwaps_NonStrict(x, y) == x.fitness <= y.fitness

SortSwaps(x, y) == x.fitness < y.fitness

RECURSIVE BubbleInner(_, _, _)
BubbleInner(tape, i, j) ==
    IF j >= TapeSize(tape) - i - 1 THEN tape
    ELSE BubbleInner(IF SortSwaps(tape[j], tape[j + 1])
                     THEN [tape EXCEPT ![j] = tape[j + 1], ![j + 1] = tape[j]]
                     ELSE tape, i, j + 1)

\* The prune cycle with its sorting pass left out.
BubbleOuter_Skip(tape, i) == tape

RECURSIVE BubbleOuter(_, _)
BubbleOuter(tape, i) ==
    IF i >= TapeSize(tape) - 1 THEN tape ELSE BubbleOuter(BubbleInner(tape, i, 0), i + 1)

PruneThresholdIndex(r) ==
    (TapeSize(r.tape) * r.fitness_params.prune_threshold) \div Scale

\* The reset loop without its test of the essential flag.
ResetEntry_All(e) == [e EXCEPT !.cell = R_Cell(0, 0, 0, 0), !.fitness = 0, !.last_used = 0]

\* The reset loop clearing the flag of the essential entries it meets.
ResetEntry_Unprotect(e) ==
    IF ~e.essential THEN [e EXCEPT !.cell = R_Cell(0, 0, 0, 0), !.fitness = 0, !.last_used = 0]
    ELSE [e EXCEPT !.essential = FALSE]

ResetEntry(e) ==
    IF ~e.essential THEN [e EXCEPT !.cell = R_Cell(0, 0, 0, 0), !.fitness = 0, !.last_used = 0]
    ELSE e

ResetTail(tape, from) ==
    [i \in DOMAIN tape |-> IF i >= from THEN ResetEntry(tape[i]) ELSE tape[i]]

l2a_prune_tape(r) ==
    LET r1     == RecomputeAll(r)
        sorted == BubbleOuter(r1.tape, 0)
    IN  [r1 EXCEPT !.tape           = ResetTail(sorted, PruneThresholdIndex(r1)),
                   !.pruning_cycles = (r.pruning_cycles + 1) % UintMod,
                   !.last_prune_op  = r.total_ops]

(***************************************************************************)
(* record_to_tape                                                          *)
(***************************************************************************)
\* The store condition without its test of the essential flag.
RecordStores_NoProtect(r, new_fitness) ==
    new_fitness >= r.tape[r.tape_head].fitness \/ ~r.tape_wrapped

\* The store condition comparing fitness also before the first wrap.
RecordStores_AlwaysCompare(r, new_fitness) ==
    ~r.tape[r.tape_head].essential /\ new_fitness >= r.tape[r.tape_head].fitness

RecordStores(r, new_fitness) ==
    LET existing == r.tape[r.tape_head]
    IN  ~existing.essential /\ (new_fitness >= existing.fitness \/ ~r.tape_wrapped)

\* The record call without its discard branch.
RecordDiscards_Never(r, new_fitness) == FALSE

RecordDiscards(r, new_fitness) ==
    LET existing == r.tape[r.tape_head]
    IN  ~RecordStores(r, new_fitness) /\ new_fitness < existing.fitness /\ r.tape_wrapped

\* The store made whatever the store condition says.
RecordWrite_Always(r, cell, new_fitness) ==
    [r EXCEPT !.tape[r.tape_head] = Tape_Entry(cell, new_fitness, r.total_ops, FALSE)]

RecordWrite(r, cell, new_fitness) ==
    IF RecordStores(r, new_fitness)
    THEN [r EXCEPT !.tape[r.tape_head] = Tape_Entry(cell, new_fitness, r.total_ops, FALSE)]
    ELSE r

\* The head advanced without wrapping.
AdvanceHead_NoWrap(r) == r.tape_head + 1

\* The head advanced by two slots.
AdvanceHead_Twice(r) == (r.tape_head + 2) % TapeSize(r.tape)

AdvanceHead(r) == (r.tape_head + 1) % TapeSize(r.tape)

\* The advance that never sets the wrap flag.
RecordAdvance_NoFlag(r) ==
    [r EXCEPT !.tape_head = AdvanceHead(r),
              !.total_ops = (r.total_ops + 1) % UintMod]

\* The advance that leaves total_ops alone.
RecordAdvance_NoCount(r) ==
    LET r1 == [r EXCEPT !.tape_head = AdvanceHead(r)]
    IN  IF r1.tape_head = 0 THEN [r1 EXCEPT !.tape_wrapped = TRUE] ELSE r1

RecordAdvance(r) ==
    LET r1 == [r EXCEPT !.tape_head = AdvanceHead(r),
                        !.total_ops = (r.total_ops + 1) % UintMod]
    IN  IF r1.tape_head = 0 /\ r1.total_ops > 0
        THEN [r1 EXCEPT !.tape_wrapped = TRUE] ELSE r1

\* The prune trigger with a strict comparison.
PruneDue_Strict(r) ==
    (r.total_ops - r.last_prune_op) % UintMod > r.fitness_params.prune_interval

PruneDue(r) ==
    (r.total_ops - r.last_prune_op) % UintMod >= r.fitness_params.prune_interval

RecordPrune(r) == IF PruneDue(r) THEN l2a_prune_tape(r) ELSE r

record_to_tape(r, cell) ==
    LET new_fitness == l2a_compute_fitness(r, r.tape_head)
    IN  IF RecordDiscards(r, new_fitness) THEN r
        ELSE RecordPrune(RecordAdvance(RecordWrite(r, cell, new_fitness)))

(***************************************************************************)
(* The four reversible primitives                                          *)
(***************************************************************************)
l2a_CCNOT(r, a, b, c) ==
    record_to_tape([r EXCEPT !.qubits = CCNOT_bits(r.qubits, a, b, c)], R_Cell(0, a, b, c))

l2a_CNOT(r, a, b) ==
    record_to_tape([r EXCEPT !.qubits = CNOT_bits(r.qubits, a, b)], R_Cell(1, a, b, 0))

l2a_NOT(r, a) ==
    record_to_tape([r EXCEPT !.qubits = NOT_bits(r.qubits, a)], R_Cell(2, a, 0, 0))

l2a_SWAP(r, a, b) ==
    record_to_tape([r EXCEPT !.qubits = SWAP_bits(r.qubits, a, b)], R_Cell(3, a, b, 0))

(***************************************************************************)
(* l2a_checkpoint / l2a_restore                                            *)
(***************************************************************************)
\* A checkpoint that protects the slot behind the cursor.
l2a_checkpoint_Behind(r) == l2a_mark_essential(r, r.tape_head + TapeSize(r.tape) - 1)

l2a_checkpoint(r) == l2a_mark_essential(r, r.tape_head)

l2a_checkpoint_ret(r) == r.tape_head

RestoreInverse(q, c) ==
    CASE c.gate = 0 -> IF q[c.a] # 0 /\ q[c.b] # 0 THEN Flip(q, c.c) ELSE q
      [] c.gate = 1 -> IF q[c.a] # 0 THEN Flip(q, c.b) ELSE q
      [] c.gate = 2 -> Flip(q, c.a)
      [] c.gate = 3 -> [[q EXCEPT ![c.a] = q[c.b]] EXCEPT ![c.b] = q[c.a]]
      [] OTHER      -> q

\* A backward step that leaves total_ops alone.
RestoreStep_NoCount(r) ==
    LET head == IF r.tape_head = 0 THEN TapeSize(r.tape) - 1 ELSE r.tape_head - 1
    IN  [r EXCEPT !.tape_head = head,
                  !.qubits    = RestoreInverse(r.qubits, r.tape[head].cell)]

\* A backward step that re-applies the cell at the old cursor position.
RestoreStep_OldCell(r) ==
    LET head == IF r.tape_head = 0 THEN TapeSize(r.tape) - 1 ELSE r.tape_head - 1
    IN  [r EXCEPT !.tape_head = head,
                  !.qubits    = RestoreInverse(r.qubits, r.tape[r.tape_head].cell),
                  !.total_ops = (r.total_ops - 1) % UintMod]

RestoreStep(r) ==
    LET head == IF r.tape_head = 0 THEN TapeSize(r.tape) - 1 ELSE r.tape_head - 1
    IN  [r EXCEPT !.tape_head = head,
                  !.qubits    = RestoreInverse(r.qubits, r.tape[head].cell),
                  !.total_ops = (r.total_ops - 1) % UintMod]

RECURSIVE l2a_restore(_, _)
l2a_restore(r, checkpoint) ==
    IF r.tape_head # checkpoint THEN l2a_restore(RestoreStep(r), checkpoint) ELSE r

(***************************************************************************)
(* Self-modification API                                                   *)
(***************************************************************************)
l2a_read_tape(r, index) == r.tape[index % TapeSize(r.tape)].cell

\* A write that goes through the admission of record_to_tape.
l2a_write_tape_Recorded(r, index, cell) == record_to_tape(r, cell)

\* A write that leaves essential slots alone.
l2a_write_tape_Guarded(r, index, cell) ==
    IF r.tape[index % TapeSize(r.tape)].essential THEN r
    ELSE [r EXCEPT !.tape[index % TapeSize(r.tape)].cell      = cell,
                   !.tape[index % TapeSize(r.tape)].last_used = r.total_ops]

l2a_write_tape(r, index, cell) ==
    [r EXCEPT !.tape[index % TapeSize(r.tape)].cell      = cell,
              !.tape[index % TapeSize(r.tape)].last_used = r.total_ops]

\* The rule applied whatever its gate field.
MetaRule_AnyGate(r, rule) ==
    [r EXCEPT !.tape[rule.a].cell.gate = rule.b,
              !.tape[rule.a].last_used = r.total_ops]

MetaRule(r, rule) ==
    IF rule.gate = 0
    THEN [r EXCEPT !.tape[rule.a].cell.gate = rule.b,
                   !.tape[rule.a].last_used = r.total_ops]
    ELSE r

RECURSIVE l2a_meta_modify(_, _)
l2a_meta_modify(r, modification_rule) ==
    IF modification_rule = <<>> THEN r
    ELSE l2a_meta_modify(MetaRule(r, Head(modification_rule)), Tail(modification_rule))

(***************************************************************************)
(* l2a_tune_fitness                                                        *)
(***************************************************************************)
\* The weights stored as the caller gave them.
TuneWeights_Raw(fp, params) ==
    [fp EXCEPT !.recency_weight  = params.recency_weight,
               !.activity_weight = params.activity_weight,
               !.gate_weight     = params.gate_weight]

TuneWeights(fp, params) ==
    LET total_weight == params.recency_weight + params.activity_weight + params.gate_weight
    IN  IF total_weight > 0
        THEN [fp EXCEPT !.recency_weight  = (params.recency_weight * Scale) \div total_weight,
                        !.activity_weight = (params.activity_weight * Scale) \div total_weight,
                        !.gate_weight     = (params.gate_weight * Scale) \div total_weight]
        ELSE fp

TuneInterval(fp, params) ==
    IF params.prune_interval > 0
    THEN [fp EXCEPT !.prune_interval = params.prune_interval] ELSE fp

\* The keep fraction stored without its range test.
TuneThreshold_Unchecked(fp, params) == [fp EXCEPT !.prune_threshold = params.prune_threshold]

TuneThreshold(fp, params) ==
    IF params.prune_threshold > 0 /\ params.prune_threshold <= Scale
    THEN [fp EXCEPT !.prune_threshold = params.prune_threshold] ELSE fp

l2a_tune_fitness(r, params) ==
    RecomputeAll([r EXCEPT !.fitness_params =
        TuneThreshold(TuneInterval(TuneWeights(r.fitness_params, params), params), params)])

(***************************************************************************)
(* L2b: the irreversible operations, built from the L2a gates of the      *)
(* runtime the L2b_Runtime points to.                                      *)
(***************************************************************************)
\* AND without the clearing of the result cell.
l2b_AND_NoClear(r, a, b, result) == l2a_CCNOT(r, a, b, result)

l2b_AND(r, a, b, result) ==
    l2a_CCNOT(IF r.qubits[result] # 0 THEN l2a_NOT(r, result) ELSE r, a, b, result)

l2b_OR(r, a, b, result) ==
    LET r1 == l2a_NOT(r, a)
        r2 == l2a_NOT(r1, b)
        r3 == l2b_AND(r2, a, b, result)
        r4 == l2a_NOT(r3, result)
        r5 == l2a_NOT(r4, a)
    IN  l2a_NOT(r5, b)

l2b_XOR(r, a, b, result) ==
    LET r1 == IF r.qubits[result] # 0 THEN l2a_NOT(r, result) ELSE r
        r2 == l2a_CNOT(r1, a, result)
    IN  l2a_CNOT(r2, b, result)

l2b_NAND(r, a, b, result) == l2a_NOT(l2b_AND(r, a, b, result), result)

l2b_NOR(r, a, b, result) == l2a_NOT(l2b_OR(r, a, b, result), result)

(***************************************************************************)
(* L2b_Maybe: the trinary MAYBE. condition_name is left out; llm_reasoning *)
(* is 0 for NULL and otherwise the number of the text it was copied from.  *)
(***************************************************************************)
MAYBE_FALSE == 0

MAYBE_TRUE == 1

MAYBE_UNRESOLVED == 2

l2b_maybe_create == [state |-> MAYBE_UNRESOLVED, confidence |-> 0, llm_reasoning |-> 0]

\* A resolution that stores the truth value as the state only when it is true.
l2b_maybe_resolve_TrueOnly(m, value, confidence, reasoning) ==
    [m EXCEPT !.state         = IF value THEN MAYBE_TRUE ELSE m.state,
              !.confidence    = confidence,
              !.llm_reasoning = IF reasoning # 0 THEN reasoning ELSE m.llm_reasoning]

l2b_maybe_resolve(m, value, confidence, reasoning) ==
    [m EXCEPT !.state         = IF value THEN MAYBE_TRUE ELSE MAYBE_FALSE,
              !.confidence    = confidence,
              !.llm_reasoning = IF reasoning # 0 THEN reasoning ELSE m.llm_reasoning]

l2b_maybe_is_resolved(m) == m.state # MAYBE_UNRESOLVED

l2b_maybe_get_state(m) == m.state

(***************************************************************************)
(* State: the runtime instance, and what the properties below need of the  *)
(* history: the runtime before the last call (pre), the calls made so far  *)
(* (trace), the register before each call (regs), the course of the last   *)
(* record_to_tape call (rec), the last checkpoint taken (cp), and the     *)
(* caller's L2b_Maybe object (maybe).                                      *)
(***************************************************************************)
VARIABLES rt, pre, trace, regs, rec, cp, maybe

vars == <<rt, pre, trace, regs, rec, cp, maybe>>

GateOps == {"CCNOT", "CNOT", "NOT", "SWAP"}

Item(op, cell, idx) == [op |-> op, cell |-> cell, idx |-> idx]

NoRec == [outcome |-> "none", new_fitness |-> 0, mid |-> ZeroEntry, pruned |-> FALSE]

NoCp == [seq |-> "none", live |-> FALSE, idx |-> 0, q |-> <<>>, entry |-> ZeroEntry,
         n |-> 0, tot |-> 0]

\* The course of record_to_tape(rq, cell): which branch it took, the candidate
\* fitness, and the runtime as it stood before the prune trigger.
RecInfo(rq, cell) ==
    LET nf == l2a_compute_fitness(rq, rq.tape_head)
    IN  [ outcome     |-> IF RecordStores(rq, nf) THEN "stored"
                          ELSE IF RecordDiscards(rq, nf) THEN "rejected" ELSE "skipped",
          new_fitness |-> nf,
          mid         |-> IF RecordDiscards(rq, nf) THEN rq
                          ELSE RecordAdvance(RecordWrite(rq, cell, nf)),
          pruned      |-> ~RecordDiscards(rq, nf)
                          /\ PruneDue(RecordAdvance(RecordWrite(rq, cell, nf))) ]

\* The checkpoint monitor: seq follows "checkpoint, gate operations whose record
\* advanced the cursor and triggered no prune, restore to the returned index";
\* live says that no prune cycle has run since the checkpoint.
CpNext(item, before, after) ==
    LET pruned == after.pruning_cycles # before.pruning_cycles
    IN  IF item.op = "checkpoint"
        THEN [seq |-> "open", live |-> TRUE, idx |-> before.tape_head, q |-> before.qubits,
              entry |-> after.tape[before.tape_head], n |-> 0, tot |-> 0]
        ELSE [cp EXCEPT
                !.live = cp.live /\ ~pruned,
                !.seq  = IF cp.seq = "none" THEN "none"
                         ELSE IF cp.seq = "open" /\ item.op \in GateOps /\ ~pruned
                                 /\ after.total_ops # before.total_ops THEN "open"
                         ELSE IF cp.seq = "open" /\ item.op = "restore" /\ item.idx = cp.idx
                              THEN "restored"
                         ELSE "void",
                !.n    = IF item.op \in GateOps THEN cp.n + 1 ELSE cp.n,
                !.tot  = before.total_ops]

OtherCount == Cardinality({i \in DOMAIN trace : trace[i].op \notin GateOps})

Step(item, after, recinfo) ==
    /\ rt' = after
    /\ pre' = rt
    /\ trace' = Append(trace, item)
    /\ regs' = Append(regs, rt.qubits)
    /\ rec' = recinfo
    /\ cp' = CpNext(item, rt, after)
    /\ maybe' = maybe

Call_CCNOT(a, b, c) ==
    Step(Item("CCNOT", R_Cell(0, a, b, c), 0), l2a_CCNOT(rt, a, b, c),
         RecInfo([rt EXCEPT !.qubits = CCNOT_bits(rt.qubits, a, b, c)], R_Cell(0, a, b, c)))

Call_CNOT(a, b) ==
    Step(Item("CNOT", R_Cell(1, a, b, 0), 0), l2a_CNOT(rt, a, b),
         RecInfo([rt EXCEPT !.qubits = CNOT_bits(rt.qubits, a, b)], R_Cell(1, a, b, 0)))

Call_NOT(a) ==
    Step(Item("NOT", R_Cell(2, a, 0, 0), 0), l2a_NOT(rt, a),
         RecInfo([rt EXCEPT !.qubits = NOT_bits(rt.qubits, a)], R_Cell(2, a, 0, 0)))

Call_SWAP(a, b) ==
    Step(Item("SWAP", R_Cell(3, a, b, 0), 0), l2a_SWAP(rt, a, b),
         RecInfo([rt EXCEPT !.qubits = SWAP_bits(rt.qubits, a, b)], R_Cell(3, a, b, 0)))

Call_checkpoint ==
    Step(Item("checkpoint", R_Cell(0, 0, 0, 0), l2a_checkpoint_ret(rt)), l2a_checkpoint(rt), NoRec)

Call_restore(checkpoint) ==
    Step(Item("restore", R_Cell(0, 0, 0, 0), checkpoint), l2a_restore(rt, checkpoint), NoRec)

Call_write_tape(index, cell) ==
    Step(Item("write_tape", cell, index), l2a_write_tape(rt, index, cell), NoRec)

Call_meta_modify(k, rules) ==
    Step(Item("meta_modify", R_Cell(0, 0, 0, 0), k), l2a_meta_modify(rt, rules), NoRec)

Call_mark_essential(index) ==
    Step(Item("mark_essential", R_Cell(0, 0, 0, 0), index), l2a_mark_essential(rt, index), NoRec)

Call_prune_tape ==
    Step(Item("prune_tape", R_Cell(0, 0, 0, 0), 0), l2a_prune_tape(rt), NoRec)

Call_tune_fitness(k, params) ==
    Step(Item("tune_fitness", R_Cell(0, 0, 0, 0), k), l2a_tune_fitness(rt, params), NoRec)

InitWith(qubits) ==
    /\ rt = l2a_init(qubits)
    /\ pre = l2a_init(qubits)
    /\ trace = <<>>
    /\ regs = <<>>
    /\ rec = NoRec
    /\ cp = NoCp
    /\ maybe = l2b_maybe_create

(***************************************************************************)
(* Spec: one instance with a 3-cell register under any interleaving of     *)
(* the interface's calls, with the arguments below: at most MaxSteps       *)
(* calls, of which at most MaxOther are not gate operations.               *)
(***************************************************************************)
Params(rw, aw, gw, interval, threshold) ==
    [recency_weight |-> rw, activity_weight |-> aw, gate_weight |-> gw,
     prune_interval |-> interval, prune_threshold |-> threshold]

TuneInputs ==
    << Params((7 * Scale) \div 10, (2 * Scale) \div 10, (1 * Scale) \div 10, 2, (5 * Scale) \div 10),
       Params(Scale, 0, 0, 1, (1 * Scale) \div 10),
       Params(0, 0, 0, 0, (15 * Scale) \div 10) >>

MetaInputs == << << R_Cell(2, 1, 0, 0), R_Cell(0, 0, 5, 0), R_Cell(0, 1, 2, 0) >> >>

WriteInputs == { <<L1_TAPE_SIZE + 1, R_Cell(3, 0, 1, 0)>> }

MarkInputs == {L1_TAPE_SIZE + 2}

GateBudget == Len(trace) < MaxSteps

OtherBudget == Len(trace) < MaxSteps /\ OtherCount < MaxOther

Init == InitWith(3)

Next ==
    \/ GateBudget /\ Call_CCNOT(0, 1, 2)
    \/ GateBudget /\ Call_CNOT(0, 1)
    \/ GateBudget /\ Call_NOT(0)
    \/ GateBudget /\ Call_SWAP(0, 2)
    \/ OtherBudget /\ Call_checkpoint
    \/ OtherBudget /\ \E t \in TapeIdx : Call_restore(t)
    \/ OtherBudget /\ \E w \in WriteInputs : Call_write_tape(w[1], w[2])
    \/ OtherBudget /\ \E k \in DOMAIN MetaInputs : Call_meta_modify(k, MetaInputs[k])
    \/ OtherBudget /\ \E i \in MarkInputs : Call_mark_essential(i)
    \/ OtherBudget /\ Call_prune_tape
    \/ OtherBudget /\ \E k \in DOMAIN TuneInputs : Call_tune_fitness(k, TuneInputs[k])

Spec == Init /\ [][Next]_vars

(***************************************************************************)
(* SpecScenario: the reversibility scenario's instance, a 4-cell register  *)
(* driven by the scenario's gate operations, checkpoint and restore.       *)
(***************************************************************************)
InitScenario == InitWith(4)

NextScenario ==
    \/ GateBudget /\ Call_CCNOT(0, 1, 2)
    \/ GateBudget /\ Call_CNOT(0, 1)
    \/ GateBudget /\ \E a \in {0, 3} : Call_NOT(a)
    \/ OtherBudget /\ Call_checkpoint
    \/ OtherBudget /\ \E t \in TapeIdx : Call_restore(t)

SpecScenario == InitScenario /\ [][NextScenario]_vars

(***************************************************************************)
(* SpecGates: a 3-cell register under every gate with every choice of      *)
(* in-range operands: at most GateSteps calls, of which at most two are    *)
(* not a NOT.                                                              *)
(***************************************************************************)
GateSteps == 4

Reg3 == 0 .. 2

GeneralCount == Cardinality({i \in DOMAIN trace : trace[i].op # "NOT"})

NotBudget == Len(trace) < GateSteps

GeneralBudget == Len(trace) < GateSteps /\ GeneralCount < 2

InitGates == InitWith(3)

NextGates ==
    \/ GeneralBudget /\ \E a \in Reg3, b \in Reg3, c \in Reg3 : Call_CCNOT(a, b, c)
    \/ GeneralBudget /\ \E a \in Reg3, b \in Reg3 : Call_CNOT(a, b)
    \/ NotBudget /\ \E a \in Reg3 : Call_NOT(a)
    \/ GeneralBudget /\ \E a \in Reg3, b \in Reg3 : Call_SWAP(a, b)

SpecGates == InitGates /\ [][NextGates]_vars

(***************************************************************************)
(* SpecRewind: a 3-cell register under gate operations, checkpoint,        *)
(* restore and direct prune cycles: at most MaxSteps calls, of which at    *)
(* most MaxRewind are not gate operations.                                 *)
(***************************************************************************)
MaxRewind == 3

RewindBudget == Len(trace) < MaxSteps /\ OtherCount < MaxRewind

InitRewind == InitWith(3)

NextRewind ==
    \/ GateBudget /\ Call_CCNOT(0, 1, 2)
    \/ GateBudget /\ Call_CNOT(0, 1)
    \/ GateBudget /\ Call_NOT(0)
    \/ GateBudget /\ Call_SWAP(0, 2)
    \/ RewindBudget /\ Call_checkpoint
    \/ RewindBudget /\ \E t \in TapeIdx : Call_restore(t)
    \/ RewindBudget /\ Call_prune_tape

SpecRewind == InitRewind /\ [][NextRewind]_vars

(***************************************************************************)
(* Properties                                                              *)
(***************************************************************************)
Last == trace[Len(trace)]

LastIsGate == trace # <<>> /\ Last.op \in GateOps

LastIs(op) == trace # <<>> /\ Last.op = op

Pruned == rt.pruning_cycles # pre.pruning_cycles

Count(tape, e) == Cardinality({i \in TapeIdx : tape[i] = e})

\* C1: checkpoint(), then N gate operations whose record calls all advanced the
\* cursor with no prune cycle, then restore() to the returned index: the register
\* is as it was at the checkpoint and total_ops is lower by N than before the restore.
C1_RoundTrip ==
    cp.seq = "restored" =>
        /\ rt.qubits = cp.q
        /\ rt.total_ops = (cp.tot - cp.n) % UintMod

\* C2: on a fresh 4-cell instance, Flip(0), CondFlip(0,1), DoubleCondFlip(0,1,2)
\* give [1,1,1,0]; checkpoint() returns 3; Flip(3) gives [1,1,1,1]; restore(3)
\* gives [1,1,1,0] again and lowers total_ops by exactly 1.
ScenarioCalls ==
    << Item("NOT", R_Cell(2, 0, 0, 0), 0),
       Item("CNOT", R_Cell(1, 0, 1, 0), 0),
       Item("CCNOT", R_Cell(0, 0, 1, 2), 0),
       Item("checkpoint", R_Cell(0, 0, 0, 0), 3),
       Item("NOT", R_Cell(2, 3, 0, 0), 0),
       Item("restore", R_Cell(0, 0, 0, 0), 3) >>

\* The first k calls of the scenario have been made, and nothing else
\* (what checkpoint returned is not compared: it is the call's result).
Ran(calls, k) ==
    /\ Len(trace) = k
    /\ \A i \in 1 .. k :
          /\ trace[i].op = calls[i].op
          /\ trace[i].cell = calls[i].cell
          /\ trace[i].op # "checkpoint" => trace[i].idx = calls[i].idx

Bits4(a, b, c, d) == [i \in 0 .. 3 |-> <<a, b, c, d>>[i + 1]]

C2_Scenario ==
    /\ Ran(ScenarioCalls, 3) => rt.qubits = Bits4(1, 1, 1, 0)
    /\ Ran(ScenarioCalls, 4) => Last.idx = 3
    /\ Ran(ScenarioCalls, 5) => rt.qubits = Bits4(1, 1, 1, 1)
    /\ Ran(ScenarioCalls, 6) =>
          /\ rt.qubits = Bits4(1, 1, 1, 0)
          /\ rt.total_ops = pre.total_ops - 1

\* C3 (as claimed): any gate with any in-range operands, coinciding or not, applied
\* twice in immediate succession returns every cell to its prior value.
Twice ==
    /\ Len(trace) >= 2
    /\ Last.op \in GateOps
    /\ trace[Len(trace) - 1] = Last

C3_Involution == Twice => rt.qubits = regs[Len(trace) - 1]

\* C3 (amended): NOT and SWAP with any in-range operands, and CNOT and CCNOT whose
\* target differs from every control, applied twice in immediate succession return
\* every cell to its prior value.
TargetApart(cell) ==
    CASE cell.gate = 0 -> cell.c # cell.a /\ cell.c # cell.b
      [] cell.gate = 1 -> cell.b # cell.a
      [] OTHER         -> TRUE

C3_InvolutionApart == Twice /\ TargetApart(Last.cell) => rt.qubits = regs[Len(trace) - 1]

C3_Witness ==
    /\ Twice
    /\ Last.op = "CCNOT"
    /\ Cardinality({Last.cell.a, Last.cell.b, Last.cell.c}) = 3
    /\ regs[Len(trace) - 1][Last.cell.a] = 1
    /\ regs[Len(trace) - 1][Last.cell.b] = 1
    /\ pre.qubits # regs[Len(trace) - 1]

\* C4: a record call that finds the entry at the cursor protected leaves the log
\* as it is: the cursor does not advance and total_ops is not incremented.
C4_ProtectedRejected ==
    LastIsGate /\ pre.tape[pre.tape_head].essential =>
        /\ rt.tape_head = pre.tape_head
        /\ rt.total_ops = pre.total_ops

\* C5: after checkpoint() returned index i and while no prune has run since, no
\* gate operation's record call changes slot i (operation, fitness, last_used,
\* essential), and after gate operations alone the slot is as checkpoint() left it.
OnlyGatesSinceCheckpoint ==
    \E k \in DOMAIN trace :
        /\ trace[k].op = "checkpoint"
        /\ \A i \in (k + 1) .. Len(trace) : trace[i].op \in GateOps

C5_ProtectedSlotKept ==
    cp.live =>
        /\ rt.tape[cp.idx].essential
        /\ LastIsGate => rt.tape[cp.idx] = pre.tape[cp.idx]
        /\ OnlyGatesSinceCheckpoint => rt.tape[cp.idx] = cp.entry

C5_Witness ==
    /\ cp.live
    /\ LastIsGate
    /\ OnlyGatesSinceCheckpoint
    /\ pre.tape_head = cp.idx
    /\ pre.tape_wrapped
    /\ cp.n > 1

\* C6: after any prune cycle every entry that was protected before it is still on
\* the tape, at whatever index, with the same operation and last_used, fitness 1.0
\* and the essential flag set.
C6_PruneKeepsProtected ==
    Pruned =>
        \A i \in TapeIdx :
            pre.tape[i].essential =>
                /\ pre.tape[i].fitness = Scale
                /\ Count(rt.tape, pre.tape[i]) = Count(pre.tape, pre.tape[i])

C6_Witness ==
    /\ Pruned
    /\ PruneThresholdIndex(rt) = 0
    /\ \E i \in TapeIdx : pre.tape[i].essential /\ ~rt.tape[i].essential

\* C7: there is an execution in which checkpoint() returned index i, a prune
\* cycle then moved the protected entry away from slot i, and restore(i) left the
\* register different from its value at the checkpoint. What every prune cycle
\* does (under the default weights): it moves the protected entries to the front
\* of the tape, so that slot i keeps a protected entry only if i is less than
\* their number; C7_Witness is the execution the claim speaks of.
EssentialCount(tape) == Cardinality({i \in TapeIdx : tape[i].essential})

C7_PruneRelocates ==
    Pruned => \A i \in TapeIdx : rt.tape[i].essential <=> i < EssentialCount(rt.tape)

C7_Witness ==
    /\ LastIs("restore")
    /\ cp.seq # "none"
    /\ Last.idx = cp.idx
    /\ ~cp.live
    /\ ~pre.tape[cp.idx].essential
    /\ pre.tape[cp.idx].cell # cp.entry.cell
    /\ rt.tape_head = cp.idx
    /\ rt.qubits # cp.q

\* C8: the cursor is always in [0, L1_TAPE_SIZE), and a record call that stores its
\* operation advances it by exactly one modulo L1_TAPE_SIZE.
C8_Cursor ==
    /\ rt.tape_head \in TapeIdx
    /\ LastIsGate /\ rec.outcome = "stored" =>
          rt.tape_head = (pre.tape_head + 1) % L1_TAPE_SIZE

C8_Witness ==
    /\ LastIsGate
    /\ rec.outcome = "stored"
    /\ pre.tape_head = L1_TAPE_SIZE - 1
    /\ rt.tape_head = 0

C10_UnwrappedAccepts ==
    LastIsGate /\ ~pre.tape_wrapped /\ ~pre.tape[pre.tape_head].essential =>
        /\ rec.outcome = "stored"
        /\ rec.mid.tape[pre.tape_head].cell = Last.cell
        /\ ~Pruned => rt.tape[pre.tape_head].cell = Last.cell
        /\ rt.tape_head = (pre.tape_head + 1) % L1_TAPE_SIZE
        /\ rt.total_ops = (pre.total_ops + 1) % UintMod

C10_Witness ==
    /\ LastIsGate
    /\ ~pre.tape_wrapped
    /\ ~pre.tape[pre.tape_head].essential
    /\ rec.new_fitness < pre.tape[pre.tape_head].fitness
    /\ rt.tape[pre.tape_head].cell = Last.cell
    /\ Last.cell # R_Cell(0, 0, 0, 0)

\* The runtime as a prune cycle found it: for a cycle triggered inside a record
\* call, the runtime after the store and the advance; for a direct call, the
\* runtime before the call.
PrePrune == IF LastIsGate THEN rec.mid ELSE pre

SameLog(r1, r2) ==
    /\ r1.tape = r2.tape
    /\ r1.tape_head = r2.tape_head
    /\ r1.total_ops = r2.total_ops
    /\ r1.tape_wrapped = r2.tape_wrapped
    /\ r1.pruning_cycles = r2.pruning_cycles
    /\ r1.last_prune_op = r2.last_prune_op

\* C11: once tape_wrapped is true and the entry at the cursor is not essential, a
\* record call stores its operation if and only if the candidate fitness it
\* computed is at least the occupant's stored fitness; when it does not, no field
\* of the log changes (tape, cursor, total_ops, tape_wrapped, pruning_cycles,
\* last_prune_op).
C11_WrappedAdmission ==
    LastIsGate /\ pre.tape_wrapped /\ ~pre.tape[pre.tape_head].essential =>
        IF rec.new_fitness >= pre.tape[pre.tape_head].fitness
        THEN /\ rec.mid.tape[pre.tape_head].cell = Last.cell
             /\ rec.mid.tape_head = (pre.tape_head + 1) % L1_TAPE_SIZE
             /\ rt.total_ops = (pre.total_ops + 1) % UintMod
        ELSE SameLog(rt, pre)

C11_Witness ==
    /\ LastIsGate
    /\ pre.tape_wrapped
    /\ ~pre.tape[pre.tape_head].essential
    /\ rec.new_fitness < pre.tape[pre.tape_head].fitness
    /\ rt.qubits # pre.qubits
    /\ SameLog(rt, pre)

\* C12: on every record call that stores its operation, the slot at the old cursor
\* holds exactly the recorded operation with last_used equal to total_ops before
\* the call and the essential flag clear, the cursor is (old cursor + 1) mod
\* L1_TAPE_SIZE, total_ops is one more, and tape_wrapped becomes true when the
\* cursor wraps back to 0; in a fresh log with gate operations only and no wrap or
\* prune, the k-th recorded operation (from 0) is read back at slot k.
OnlyGates == \A i \in DOMAIN trace : trace[i].op \in GateOps

C12_AcceptedRecord ==
    /\ LastIsGate /\ rec.outcome = "stored" =>
          /\ rec.mid.tape[pre.tape_head].cell = Last.cell
          /\ rec.mid.tape[pre.tape_head].last_used = pre.total_ops
          /\ ~rec.mid.tape[pre.tape_head].essential
          /\ ~Pruned => rt.tape[pre.tape_head] = rec.mid.tape[pre.tape_head]
          /\ rt.tape_head = (pre.tape_head + 1) % L1_TAPE_SIZE
          /\ rt.total_ops = (pre.total_ops + 1) % UintMod
          /\ rt.tape_wrapped = (pre.tape_wrapped \/ rt.tape_head = 0)
    /\ OnlyGates /\ ~rt.tape_wrapped /\ rt.pruning_cycles = 0 =>
          \A k \in DOMAIN trace : l2a_read_tape(rt, k - 1) = trace[k].cell

\* C13: the candidate fitness record computes for admission, and stores with the
\* new entry, is the fitness formula evaluated on the new operation resident in
\* the slot with age 0, not on the previous occupant.
CandidateOfNew ==
    l2a_compute_fitness(
        [pre EXCEPT !.qubits = rt.qubits,
                    !.tape[pre.tape_head] = Tape_Entry(Last.cell, 0, pre.total_ops, FALSE)],
        pre.tape_head)

C13_CandidateOfNew ==
    LastIsGate /\ ~pre.tape[pre.tape_head].essential =>
        /\ rec.new_fitness = CandidateOfNew
        /\ rec.outcome = "stored" => rec.mid.tape[pre.tape_head].fitness = CandidateOfNew

\* C14: in an execution made of gate operations only, under the prune_interval in
\* force from its start (256, or the one set by a tune call made before the first
\* gate operation), record triggers a prune cycle exactly when total_ops reaches a
\* positive multiple of prune_interval, and the cycle sets last_prune_op to
\* total_ops; hence pruning_cycles = total_ops div prune_interval.
CadenceRun ==
    \A i \in DOMAIN trace :
        trace[i].op \in GateOps \/ (i = 1 /\ trace[i].op = "tune_fitness")

C14_PruneCadence ==
    CadenceRun =>
        /\ rt.pruning_cycles = rt.total_ops \div rt.fitness_params.prune_interval
        /\ rt.last_prune_op = rt.pruning_cycles * rt.fitness_params.prune_interval
        /\ LastIsGate =>
              (Pruned <=> /\ rt.total_ops # pre.total_ops
                          /\ rt.total_ops > 0
                          /\ rt.total_ops % rt.fitness_params.prune_interval = 0)
        /\ Pruned => rt.last_prune_op = rt.total_ops

C14_Witness ==
    /\ CadenceRun
    /\ LastIsGate
    /\ Pruned
    /\ rt.fitness_params.prune_interval = 2
    /\ rt.pruning_cycles = 2
    /\ rt.total_ops = 4

\* C15: after a prune cycle the tape is a permutation of the entries the cycle
\* found (the non-essential ones carrying their recomputed fitness) in
\* non-increasing fitness order by index, in which exactly the non-essential
\* entries at indices >= floor(L1_TAPE_SIZE * prune_threshold) are reset to
\* R_Cell{0,0,0,0} with fitness 0 and last_used 0 and every other entry is intact;
\* pruning_cycles is one more, and cursor, total_ops and register are unchanged.
Perms == {p \in [TapeIdx -> TapeIdx] : \A i, j \in TapeIdx : p[i] = p[j] => i = j}

Recomputed ==
    [i \in TapeIdx |->
        IF PrePrune.tape[i].essential THEN PrePrune.tape[i]
        ELSE [PrePrune.tape[i] EXCEPT !.fitness = l2a_compute_fitness(PrePrune, i)]]

KeepIndex == (L1_TAPE_SIZE * PrePrune.fitness_params.prune_threshold) \div Scale

C15_PrunePostcondition ==
    Pruned =>
        /\ \E p \in Perms :
              LET S == [i \in TapeIdx |-> Recomputed[p[i]]]
              IN  /\ \A i \in 0 .. (L1_TAPE_SIZE - 2) : S[i].fitness >= S[i + 1].fitness
                  /\ \A i \in TapeIdx :
                        rt.tape[i] = IF i >= KeepIndex /\ ~S[i].essential
                                     THEN Tape_Entry(R_Cell(0, 0, 0, 0), 0, 0, FALSE)
                                     ELSE S[i]
        /\ rt.pruning_cycles = (PrePrune.pruning_cycles + 1) % UintMod
        /\ rt.tape_head = PrePrune.tape_head
        /\ rt.total_ops = PrePrune.total_ops
        /\ rt.qubits = PrePrune.qubits

C15_Witness ==
    /\ Pruned
    /\ KeepIndex \in 1 .. (L1_TAPE_SIZE - 1)
    /\ \E i \in TapeIdx :
          /\ i < KeepIndex
          /\ rt.tape[i] # Recomputed[i]
          /\ rt.tape[i].cell # R_Cell(0, 0, 0, 0)
    /\ \E i \in TapeIdx :
          /\ Recomputed[i].cell # R_Cell(0, 0, 0, 0)
          /\ \A j \in TapeIdx : rt.tape[j].cell # Recomputed[i].cell

\* C16: checkpoint() returns the current cursor, sets the essential flag and
\* fitness 1.0 on the entry at that cursor, and changes nothing else: cursor,
\* total_ops, register, that slot's operation and last_used, every other slot and
\* every other field are as before; the slot is the one the next record targets.
C16_CheckpointFrame ==
    LastIs("checkpoint") =>
        /\ Last.idx = pre.tape_head
        /\ rt = [pre EXCEPT !.tape[pre.tape_head].essential = TRUE,
                            !.tape[pre.tape_head].fitness   = Scale]
        /\ rt.tape_head = Last.idx

C16_Witness ==
    /\ LastIs("checkpoint")
    /\ Last.idx = 2
    /\ ~pre.tape[2].essential
    /\ pre.tape[2].cell # R_Cell(0, 0, 0, 0)
    /\ pre.tape[2].fitness # Scale
    /\ rt.tape[2].essential
    /\ rt.tape[2].cell = pre.tape[2].cell

(***************************************************************************)
(* SpecRestoreLoop: l2a_restore taken one iteration of its while loop at a  *)
(* time, for targets inside the tape and beyond it. A call in progress is  *)
(* the last item of trace, with op "restore_running"; pre is the runtime   *)
(* at its entry. At most LoopCalls calls; a target beyond the tape is      *)
(* passed only among the first HangCalls calls.                            *)
(***************************************************************************)
LoopCalls == 4

HangCalls == 1

BeyondTape == {L1_TAPE_SIZE}

RestoreRunning == LastIs("restore_running")

Restore_enter(checkpoint) ==
    /\ trace' = Append(trace, Item("restore_running", R_Cell(0, 0, 0, 0), checkpoint))
    /\ pre' = rt
    /\ regs' = Append(regs, rt.qubits)
    /\ rec' = NoRec
    /\ UNCHANGED <<rt, cp, maybe>>

Restore_iterate ==
    /\ RestoreRunning
    /\ rt.tape_head # Last.idx
    /\ rt' = RestoreStep(rt)
    /\ UNCHANGED <<pre, trace, regs, rec, cp, maybe>>

Restore_return ==
    /\ RestoreRunning
    /\ rt.tape_head = Last.idx
    /\ trace' = [trace EXCEPT ![Len(trace)].op = "restore"]
    /\ cp' = CpNext(Item("restore", R_Cell(0, 0, 0, 0), Last.idx), pre, rt)
    /\ UNCHANGED <<rt, pre, regs, rec, maybe>>

LoopBudget == ~RestoreRunning /\ Len(trace) < LoopCalls

HangBudget == ~RestoreRunning /\ Len(trace) < HangCalls

InitRestoreLoop == InitWith(3)

NextRestoreLoop ==
    \/ LoopBudget /\ Call_NOT(0)
    \/ LoopBudget /\ Call_CNOT(0, 1)
    \/ LoopBudget /\ Call_checkpoint
    \/ LoopBudget /\ \E t \in TapeIdx : Restore_enter(t)
    \/ HangBudget /\ \E t \in BeyondTape : Restore_enter(t)
    \/ Restore_iterate
    \/ Restore_return

SpecRestoreLoop == InitRestoreLoop /\ [][NextRestoreLoop]_vars

\* The backward steps the restore call in progress, or just returned, has taken.
RestoreSteps == (pre.total_ops - rt.total_ops) % UintMod

Distance(head, target) == (head - target) % L1_TAPE_SIZE

RECURSIVE Replayed(_, _, _, _)
Replayed(q, tape, head, n) ==
    IF n = 0 THEN q
    ELSE LET h == (head - 1) % L1_TAPE_SIZE
         IN  Replayed(RestoreInverse(q, tape[h].cell), tape, h, n - 1)

\* C17: for every target in [0, L1_TAPE_SIZE), restore(target) terminates with the
\* cursor at the target after exactly (cursor before - target) mod L1_TAPE_SIZE
\* backward steps: the steps taken plus the distance left always equal the
\* distance at entry; each step moves the cursor back by one (from 0 to
\* L1_TAPE_SIZE - 1), re-applies the operation stored at the new cursor position
\* and decrements total_ops; restore(cursor) changes nothing.
C17_RestoreTerminates ==
    /\ RestoreRunning /\ Last.idx \in TapeIdx =>
          /\ RestoreSteps + Distance(rt.tape_head, Last.idx) = Distance(pre.tape_head, Last.idx)
          /\ rt.tape_head = (pre.tape_head - RestoreSteps) % L1_TAPE_SIZE
          /\ rt.qubits = Replayed(pre.qubits, pre.tape, pre.tape_head, RestoreSteps)
          /\ rt = [pre EXCEPT !.tape_head = rt.tape_head, !.qubits = rt.qubits,
                              !.total_ops = rt.total_ops]
    /\ LastIs("restore") =>
          /\ rt.tape_head = Last.idx
          /\ RestoreSteps = Distance(pre.tape_head, Last.idx)
          /\ rt.qubits = Replayed(pre.qubits, pre.tape, pre.tape_head, RestoreSteps)
          /\ rt = [pre EXCEPT !.tape_head = rt.tape_head, !.qubits = rt.qubits,
                              !.total_ops = rt.total_ops]
          /\ rt = l2a_restore(pre, Last.idx)
          /\ Last.idx = pre.tape_head => rt = pre

C17_Witness ==
    /\ LastIs("restore")
    /\ RestoreSteps = L1_TAPE_SIZE - 1
    /\ pre.tape_head < Last.idx
    /\ rt.qubits # pre.qubits
    /\ pre.total_ops >= RestoreSteps

\* C18: restore never loops indefinitely and never silently desynchronizes log and
\* register: it takes fewer than L1_TAPE_SIZE backward steps whatever the target,
\* and, having no failure to report, it returns only for a target that a
\* checkpoint call returned, with the register as it was at that checkpoint.
C18_RestoreSound ==
    /\ RestoreRunning => RestoreSteps < L1_TAPE_SIZE
    /\ LastIs("restore") =>
          \E k \in DOMAIN trace :
              /\ trace[k].op = "checkpoint"
              /\ trace[k].idx = Last.idx
              /\ rt.qubits = regs[k]

\* C19: in every reachable state every essential entry has stored fitness exactly
\* 1.0 and l2a_compute_fitness reports 1.0 for it, whatever the weights, its age,
\* the register, and the prune cycles and tune calls made.
C19_ProtectedFitness ==
    \A i \in TapeIdx :
        rt.tape[i].essential =>
            /\ rt.tape[i].fitness = Scale
            /\ l2a_compute_fitness(rt, i) = Scale

C19_Witness ==
    /\ rt.pruning_cycles > 0
    /\ rt.fitness_params.recency_weight # (5 * Scale) \div 10
    /\ \E i \in TapeIdx :
          /\ rt.tape[i].essential
          /\ rt.tape[i].fitness = Scale
          /\ (rt.total_ops - rt.tape[i].last_used) % UintMod >= 2
          /\ l2a_compute_fitness([rt EXCEPT !.tape[i].essential = FALSE], i) < Scale

\* C20 (as claimed): while an entry's essential flag holds, no call of the
\* interface (gate operations, prune, tune, restore, write_tape, meta_modify)
\* evicts it or overwrites its stored operation.
KeptAcross(i) ==
    IF Pruned THEN Count(rt.tape, pre.tape[i]) = Count(pre.tape, pre.tape[i])
    ELSE rt.tape[i].essential /\ rt.tape[i].cell = pre.tape[i].cell

C20_ProtectedKept ==
    \A i \in TapeIdx : pre.tape[i].essential => KeptAcross(i)

\* C20 (amended): while an entry's essential flag holds, no gate operation, prune
\* cycle, tune call or restore evicts it or overwrites its stored operation (a
\* prune cycle may move it to another index); the raw writes l2a_write_tape and
\* l2a_meta_modify overwrite the operation of the slot they address, essential or
\* not, and leave the flag and the other essential entries alone.
RawWrites == {"write_tape", "meta_modify"}

C20_ProtectedKeptButRaw ==
    /\ trace # <<>> /\ Last.op \notin RawWrites =>
          \A i \in TapeIdx : pre.tape[i].essential => KeptAcross(i)
    /\ LastIs("write_tape") =>
          /\ rt.tape[Last.idx % L1_TAPE_SIZE].cell = Last.cell
          /\ \A i \in TapeIdx :
                pre.tape[i].essential =>
                    /\ rt.tape[i].essential
                    /\ i # Last.idx % L1_TAPE_SIZE => rt.tape[i] = pre.tape[i]
    /\ LastIs("meta_modify") =>
          \A i \in TapeIdx :
              pre.tape[i].essential =>
                  /\ rt.tape[i].essential
                  /\ rt.tape[i].cell = [pre.tape[i].cell EXCEPT !.gate = rt.tape[i].cell.gate]

C20_Witness ==
    /\ LastIsGate
    /\ pre.tape_wrapped
    /\ pre.tape[pre.tape_head].essential
    /\ pre.tape[pre.tape_head].cell # Last.cell
    /\ rt.tape[pre.tape_head] = pre.tape[pre.tape_head]
    /\ rt.tape_head # pre.tape_head

\* C23: recording exactly L1_TAPE_SIZE + k operations (k >= 1) into a fresh log,
\* with no slot protected and no record rejected, sets tape_wrapped and leaves the
\* cursor at k mod L1_TAPE_SIZE.
C23_WrapInvariant ==
    OnlyGates /\ rt.total_ops = Len(trace) /\ Len(trace) > L1_TAPE_SIZE =>
        /\ rt.tape_wrapped
        /\ rt.tape_head = (Len(trace) - L1_TAPE_SIZE) % L1_TAPE_SIZE

C23_Witness ==
    /\ OnlyGates
    /\ Len(trace) = L1_TAPE_SIZE + 2
    /\ rt.total_ops = Len(trace)
    /\ rt.tape_wrapped
    /\ rt.tape_head = 2

\* C24: after at least L1_TAPE_SIZE gate operations issued to a fresh instance with
\* no checkpoint (records rejected after the wrap and prune cycles triggered by
\* record included, under the interval in force from the start), tape_wrapped is
\* true and total_ops >= L1_TAPE_SIZE.
GateCount == Cardinality({i \in DOMAIN trace : trace[i].op \in GateOps})

C24_WrappedAfterCapacity ==
    CadenceRun /\ GateCount >= L1_TAPE_SIZE =>
        /\ rt.tape_wrapped
        /\ rt.total_ops >= L1_TAPE_SIZE

C24_Witness ==
    /\ CadenceRun
    /\ GateCount > L1_TAPE_SIZE
    /\ rt.pruning_cycles > 0
    /\ rt.total_ops < GateCount
    /\ rt.tape_wrapped

\* C25: in every reachable state, of two non-essential entries with the same
\* operation whose last_used values are t1 < t2, evaluated against the same
\* register and total_ops, the one with t1 has the lower or equal fitness.
C25_IdleDecayMonotone ==
    \A i, j \in TapeIdx :
        /\ ~rt.tape[i].essential
        /\ ~rt.tape[j].essential
        /\ rt.tape[i].cell = rt.tape[j].cell
        /\ rt.tape[i].last_used < rt.tape[j].last_used
        => l2a_compute_fitness(rt, i) <= l2a_compute_fitness(rt, j)

(***************************************************************************)
(* l2a_get_tape_stats                                                      *)
(***************************************************************************)
RECURSIVE StatsFitnessSum(_, _)
StatsFitnessSum(tape, n) ==
    IF n = 0 THEN 0 ELSE StatsFitnessSum(tape, n - 1) + tape[n - 1].fitness

StatsActive(entry) == entry.cell.gate # 0 \/ entry.cell.a # 0

l2a_get_tape_stats(r) ==
    [ avg_fitness     |-> StatsFitnessSum(r.tape, TapeSize(r.tape)) \div TapeSize(r.tape),
      min_fitness     |-> CHOOSE m \in {Scale} \cup {r.tape[i].fitness : i \in DOMAIN r.tape} :
                              \A i \in DOMAIN r.tape : m <= r.tape[i].fitness /\ m <= Scale,
      max_fitness     |-> CHOOSE m \in {0} \cup {r.tape[i].fitness : i \in DOMAIN r.tape} :
                              \A i \in DOMAIN r.tape : m >= r.tape[i].fitness /\ m >= 0,
      essential_count |-> Cardinality({i \in DOMAIN r.tape : r.tape[i].essential}),
      active_count    |-> Cardinality({i \in DOMAIN r.tape : StatsActive(r.tape[i])}),
      pruning_cycles  |-> r.pruning_cycles ]

Call_get_tape_stats ==
    Step(Item("get_tape_stats", R_Cell(0, 0, 0, 0), 0), rt, NoRec)

(***************************************************************************)
(* SpecRaw: a 3-cell register under gate operations, checkpoint, direct    *)
(* prune cycles, the raw tape accessors with indices inside the tape and   *)
(* beyond it, and the statistics call: at most RawCalls calls.             *)
(***************************************************************************)
RawCalls == 3

RawIndexes == {0, 1, L1_TAPE_SIZE - 1, L1_TAPE_SIZE, L1_TAPE_SIZE + 1}

RawCells == {R_Cell(1, 0, 1, 0), R_Cell(0, 0, 0, 0)}

RawRules ==
    << << R_Cell(0, 1, 5, 0) >>,
       << R_Cell(2, 0, 0, 0), R_Cell(2, 1, 0, 0) >>,
       << R_Cell(0, 0, 1, 0), R_Cell(0, 2, 3, 0), R_Cell(1, 3, 2, 0) >>,
       << R_Cell(0, 1, 2, 0), R_Cell(0, 1, 3, 0) >> >>

RawBudget == Len(trace) < RawCalls

InitRaw == InitWith(3)

NextRaw ==
    \/ RawBudget /\ Call_NOT(0)
    \/ RawBudget /\ Call_CCNOT(0, 1, 2)
    \/ RawBudget /\ Call_checkpoint
    \/ RawBudget /\ Call_prune_tape
    \/ RawBudget /\ \E i \in RawIndexes, c \in RawCells : Call_write_tape(i, c)
    \/ RawBudget /\ \E k \in DOMAIN RawRules : Call_meta_modify(k, RawRules[k])
    \/ RawBudget /\ Call_get_tape_stats

SpecRaw == InitRaw /\ [][NextRaw]_vars

\* C21: l2a_write_tape and l2a_meta_modify bypass admission: for any index and
\* cell they leave the cursor, total_ops, the register, the prune counters and
\* every slot other than the addressed one(s) as they were.
Addressed ==
    IF Last.op = "write_tape" THEN {Last.idx % L1_TAPE_SIZE}
    ELSE {RawRules[Last.idx][n].a : n \in DOMAIN RawRules[Last.idx]}

C21_RawWriteFrame ==
    trace # <<>> /\ Last.op \in RawWrites =>
        /\ rt.tape_head = pre.tape_head
        /\ rt.total_ops = pre.total_ops
        /\ rt.qubits = pre.qubits
        /\ rt.tape_wrapped = pre.tape_wrapped
        /\ rt.pruning_cycles = pre.pruning_cycles
        /\ rt.last_prune_op = pre.last_prune_op
        /\ rt.fitness_params = pre.fitness_params
        /\ \A i \in TapeIdx \ Addressed : rt.tape[i] = pre.tape[i]

C21_Witness ==
    /\ LastIs("meta_modify")
    /\ Cardinality({i \in TapeIdx : rt.tape[i] # pre.tape[i]}) = 2
    /\ pre.total_ops > 0
    /\ pre.tape_head # 0

\* C22: for every index i and cell c, l2a_read_tape(i) right after
\* l2a_write_tape(i, c) returns exactly c, whatever the slot held and whether or
\* not it is essential; i and i + L1_TAPE_SIZE address the same slot.
C22_ReadAfterWrite ==
    LastIs("write_tape") =>
        /\ l2a_read_tape(rt, Last.idx) = Last.cell
        /\ l2a_read_tape(rt, Last.idx + L1_TAPE_SIZE) = Last.cell
        /\ rt.tape[Last.idx % L1_TAPE_SIZE].cell = Last.cell

C22_Witness ==
    /\ LastIs("write_tape")
    /\ Last.idx = L1_TAPE_SIZE + 1
    /\ pre.tape[1].essential
    /\ pre.tape[1].cell # Last.cell
    /\ l2a_read_tape(rt, 1) = Last.cell

\* C30: l2a_get_tape_stats changes no state; its essential count is the number of
\* slots whose essential flag is set, its active count the number of slots whose
\* operation differs from the default R_Cell{0,0,0,0}, and its pruning-cycle
\* count the number of prune cycles run so far.
PruneCalls == Cardinality({i \in DOMAIN trace : trace[i].op = "prune_tape"})

C30_StatsAccurate ==
    LastIs("get_tape_stats") =>
        /\ rt = pre
        /\ l2a_get_tape_stats(rt).essential_count =
              Cardinality({i \in TapeIdx : rt.tape[i].essential})
        /\ l2a_get_tape_stats(rt).active_count =
              Cardinality({i \in TapeIdx : rt.tape[i].cell # R_Cell(0, 0, 0, 0)})
        /\ l2a_get_tape_stats(rt).pruning_cycles = PruneCalls

(***************************************************************************)
(* SpecTune: a 3-cell register under gate operations, checkpoint, restore  *)
(* and l2a_tune_fitness with valid and invalid parameters of every kind:   *)
(* at most TuneCalls calls.                                                *)
(***************************************************************************)
TuneCalls == 4

TuneSpace ==
    << Params(Scale \div 10, Scale \div 10, Scale \div 10, 0, (5 * Scale) \div 10),
       Params(2 * Scale, 0 - (5 * Scale) \div 10, 0 - (5 * Scale) \div 10, 3, 0),
       Params(0, 0, 0, 2, (15 * Scale) \div 10),
       Params(0 - Scale, (5 * Scale) \div 10, (2 * Scale) \div 10, 0, Scale),
       Params((7 * Scale) \div 10, (2 * Scale) \div 10, Scale \div 10, 256, (7 * Scale) \div 10),
       Params(Scale, Scale, 2 * Scale, 1, 0 - (5 * Scale) \div 10) >>

TuneBudget == Len(trace) < TuneCalls

InitTune == InitWith(3)

NextTune ==
    \/ TuneBudget /\ Call_NOT(0)
    \/ TuneBudget /\ Call_CNOT(0, 1)
    \/ TuneBudget /\ Call_checkpoint
    \/ TuneBudget /\ \E t \in TapeIdx : Call_restore(t)
    \/ TuneBudget /\ \E k \in DOMAIN TuneSpace : Call_tune_fitness(k, TuneSpace[k])

SpecTune == InitTune /\ [][NextTune]_vars

WeightSum(fp) == fp.recency_weight + fp.activity_weight + fp.gate_weight

\* C27: in every reachable state, also after a tune call with any weights and
\* after restore, the stored fitness of every entry lies in [0, 1].
C27_FitnessInUnit ==
    \A i \in TapeIdx : rt.tape[i].fitness >= 0 /\ rt.tape[i].fitness <= Scale

\* C28 (as claimed): in every reachable state the three weights sum to exactly 1.
C28_WeightsSumToOne == WeightSum(rt.fitness_params) = Scale

\* C28 (amended): a tune call whose weights have a positive sum stores each weight
\* divided by that sum, so that the stored weights sum to 1 up to the rounding of
\* the three divisions (less than one unit of the representation each); a call
\* whose weights sum to zero or less leaves the weights as they were; initially
\* they are 0.5, 0.3, 0.2.
C28_WeightsNormalized ==
    /\ WeightSum(rt.fitness_params) \in (Scale - 2) .. Scale
    /\ LastIs("tune_fitness") =>
          LET p == TuneSpace[Last.idx]
              t == WeightSum(p)
          IN  IF t > 0
              THEN /\ rt.fitness_params.recency_weight  = (p.recency_weight * Scale) \div t
                   /\ rt.fitness_params.activity_weight = (p.activity_weight * Scale) \div t
                   /\ rt.fitness_params.gate_weight     = (p.gate_weight * Scale) \div t
              ELSE /\ rt.fitness_params.recency_weight  = pre.fitness_params.recency_weight
                   /\ rt.fitness_params.activity_weight = pre.fitness_params.activity_weight
                   /\ rt.fitness_params.gate_weight     = pre.fitness_params.gate_weight

C28_Witness ==
    /\ LastIs("tune_fitness")
    /\ WeightSum(TuneSpace[Last.idx]) < 0
    /\ rt.fitness_params.recency_weight = pre.fitness_params.recency_weight
    /\ WeightSum(rt.fitness_params) = Scale - 1

\* C29: l2a_tune_fitness applies each parameter on its own: a zero prune_interval
\* leaves prune_interval as it was, a prune_threshold outside (0, 1] leaves
\* prune_threshold as it was, and each valid parameter of the same call is
\* applied; so prune_interval > 0 and prune_threshold in (0, 1] in every reachable
\* state. The call changes no entry's operation, index, last_used or essential
\* flag, nor cursor, total_ops or pruning_cycles.
C29_TunePartial ==
    /\ rt.fitness_params.prune_interval > 0
    /\ rt.fitness_params.prune_threshold > 0
    /\ rt.fitness_params.prune_threshold <= Scale
    /\ LastIs("tune_fitness") =>
          LET p == TuneSpace[Last.idx]
          IN  /\ rt.fitness_params.prune_interval =
                    IF p.prune_interval = 0 THEN pre.fitness_params.prune_interval
                    ELSE p.prune_interval
              /\ rt.fitness_params.prune_threshold =
                    IF p.prune_threshold > 0 /\ p.prune_threshold <= Scale
                    THEN p.prune_threshold ELSE pre.fitness_params.prune_threshold
              /\ WeightSum(p) > 0 =>
                    rt.fitness_params.recency_weight = (p.recency_weight * Scale) \div WeightSum(p)
              /\ \A i \in TapeIdx :
                    /\ rt.tape[i].cell = pre.tape[i].cell
                    /\ rt.tape[i].last_used = pre.tape[i].last_used
                    /\ rt.tape[i].essential = pre.tape[i].essential
              /\ rt.tape_head = pre.tape_head
              /\ rt.total_ops = pre.total_ops
              /\ rt.pruning_cycles = pre.pruning_cycles
              /\ rt.qubits = pre.qubits

C29_Witness ==
    /\ LastIs("tune_fitness")
    /\ TuneSpace[Last.idx].prune_interval = 0
    /\ pre.fitness_params.prune_interval = 3
    /\ rt.fitness_params.prune_interval = 3
    /\ rt.fitness_params.prune_threshold # pre.fitness_params.prune_threshold
    /\ rt.fitness_params.recency_weight # pre.fitness_params.recency_weight
    /\ \E i \in TapeIdx : rt.tape[i].cell # R_Cell(0, 0, 0, 0)

(***************************************************************************)
(* SpecPruneScenario: the pruning scenario's instance, a build whose tape   *)
(* has 8 entries, with a 3-cell register. The first call may set the prune *)
(* interval to 8 and the keep fraction to 0.5 through l2a_tune_fitness,    *)
(* with the weights l2a_get_fitness_params returns; then NOT(0) and NOT(1) *)
(* in any order: at most PruneScenarioCalls calls.                              *)
(***************************************************************************)
PruneScenarioTapeSize == 8

PruneScenarioCalls == 9

PruneScenarioParams ==
    Params((5 * Scale) \div 10, (3 * Scale) \div 10, (2 * Scale) \div 10, 8, (5 * Scale) \div 10)

PruneScenarioBudget == Len(trace) < PruneScenarioCalls

InitPruneScenario ==
    /\ rt = l2a_init_sized(3, PruneScenarioTapeSize)
    /\ pre = l2a_init_sized(3, PruneScenarioTapeSize)
    /\ trace = <<>>
    /\ regs = <<>>
    /\ rec = NoRec
    /\ cp = NoCp
    /\ maybe = l2b_maybe_create

NextPruneScenario ==
    \/ trace = <<>> /\ Call_tune_fitness(1, PruneScenarioParams)
    \/ PruneScenarioBudget /\ Call_NOT(0)
    \/ PruneScenarioBudget /\ Call_NOT(1)

SpecPruneScenario == InitPruneScenario /\ [][NextPruneScenario]_vars

\* The positions in the trace of the calls that touch index 1.
TouchOne == {i \in DOMAIN trace : trace[i].op = "NOT" /\ trace[i].cell.a = 1}

\* The run of the scenario: the tuning call, then 8 recorded operations, one of
\* which, among the first four, touches index 1 and all others index 0.
PruneScenarioRun ==
    /\ Len(trace) = PruneScenarioTapeSize + 1
    /\ trace[1].op = "tune_fitness"
    /\ Cardinality(TouchOne) = 1
    /\ \A i \in TouchOne : i <= 1 + PruneScenarioTapeSize \div 2

\* C26: with a tape of 8 entries, prune interval 8 and keep fraction 0.5, after 8
\* operations recorded into a fresh tape, of which one among the first four is
\* NOT(1) and the others are NOT(0), the 8th record has run one prune cycle that
\* reset the NOT(1) entry and kept the four most recently recorded NOT(0) entries,
\* the most recent first.
C26_PruningScenario ==
    PruneScenarioRun =>
        /\ rt.pruning_cycles = 1 /\ pre.pruning_cycles = 0
        /\ \A i \in DOMAIN rt.tape : rt.tape[i].cell # R_Cell(2, 1, 0, 0)
        /\ \A i \in 0 .. (PruneScenarioTapeSize \div 2 - 1) :
              /\ rt.tape[i].cell = R_Cell(2, 0, 0, 0)
              /\ rt.tape[i].last_used = PruneScenarioTapeSize - 1 - i
        /\ \A i \in (PruneScenarioTapeSize \div 2) .. (PruneScenarioTapeSize - 1) : rt.tape[i] = ZeroEntry

C26_Witness ==
    /\ PruneScenarioRun
    /\ trace[3].cell.a = 1
    /\ rec.pruned
    /\ \E i \in DOMAIN rec.mid.tape : rec.mid.tape[i].cell = R_Cell(2, 1, 0, 0)
    /\ rt.tape[0].cell = R_Cell(2, 0, 0, 0)

(***************************************************************************)
(* Counters                                                                *)
(***************************************************************************)
NoCursorOps == {"checkpoint", "prune_tape", "tune_fitness", "write_tape", "meta_modify",
                "mark_essential"}

\* C36: in every reachable state total_ops mod L1_TAPE_SIZE equals tape_head: a gate
\* call advances both or neither, and checkpoint, prune, tune, the raw writes and
\* mark_essential change neither (restore steps both back, also when total_ops
\* wraps below zero).
C36_CounterMatchesCursor ==
    /\ rt.total_ops % TapeSize(rt.tape) = rt.tape_head
    /\ LastIsGate => (rt.tape_head # pre.tape_head <=> rt.total_ops # pre.total_ops)
    /\ trace # <<>> /\ Last.op \in NoCursorOps =>
          rt.tape_head = pre.tape_head /\ rt.total_ops = pre.total_ops

C36_Witness ==
    /\ LastIs("restore")
    /\ rt.total_ops > pre.total_ops
    /\ rt.tape_head # pre.tape_head
    /\ \E i \in DOMAIN trace : trace[i].op \in GateOps

\* C37: in every reachable state last_prune_op <= total_ops, so that the unsigned
\* difference total_ops - last_prune_op of the prune trigger never wraps.
C37_PruneStampBehind == rt.last_prune_op <= rt.total_ops

\* C38: a restore to an in-range target takes no more backward steps than
\* total_ops counts, so total_ops never wraps below zero.
C38_RestoreNoUnderflow == LastIs("restore") => RestoreSteps <= pre.total_ops

\* C34: a gate call changes the register only if record_to_tape stores its
\* operation at the slot the cursor pointed to; when the record is rejected or
\* skipped the register is as before the call.
C34_ChangesLogged ==
    LastIsGate /\ rt.qubits # pre.qubits =>
        /\ rec.outcome = "stored"
        /\ rec.mid.tape[pre.tape_head].cell = Last.cell

(***************************************************************************)
(* Protection and the order of the prune cycle                             *)
(***************************************************************************)
\* C39 (as claimed): no call clears an essential flag, the number of essential
\* entries never decreases, and the slot a checkpoint has marked never again
\* stores a recorded operation.
C39_SlotProtectedForever ==
    /\ EssentialCount(rt.tape) >= EssentialCount(pre.tape)
    /\ cp.seq # "none" /\ LastIsGate /\ rec.outcome = "stored" => pre.tape_head # cp.idx

\* C39 (amended): no call clears an essential flag: the number of essential
\* entries never decreases, a record stores only into a slot that is not
\* essential, every call without a prune cycle leaves the flag on the slots that
\* had it, and a prune cycle moves each essential entry, flag included, to the
\* index the sort gives it, so that the index it was marked at can lose the flag.
C39_ProtectionMovesWithEntry ==
    /\ EssentialCount(rt.tape) >= EssentialCount(pre.tape)
    /\ LastIsGate /\ rec.outcome = "stored" => ~pre.tape[pre.tape_head].essential
    /\ trace # <<>> /\ ~Pruned => \A i \in TapeIdx : pre.tape[i].essential => rt.tape[i].essential
    /\ Pruned => \A i \in TapeIdx :
          PrePrune.tape[i].essential =>
              Count(rt.tape, PrePrune.tape[i]) = Count(PrePrune.tape, PrePrune.tape[i])

C39_Witness ==
    /\ Pruned
    /\ \E i \in TapeIdx : pre.tape[i].essential /\ ~rt.tape[i].essential
    /\ EssentialCount(rt.tape) = EssentialCount(pre.tape)
    /\ EssentialCount(rt.tape) > 0

\* The index a stable descending sort gives the entry at index i.
StableRank(i) ==
      Cardinality({j \in TapeIdx : Recomputed[j].fitness > Recomputed[i].fitness})
    + Cardinality({j \in TapeIdx : j < i /\ Recomputed[j].fitness = Recomputed[i].fitness})

StableSorted == [k \in TapeIdx |-> Recomputed[CHOOSE i \in TapeIdx : StableRank(i) = k]]

\* C40: the reordering of a prune cycle is stable: the tape after the cycle is the
\* recomputed tape sorted by descending fitness with entries of equal fitness in
\* their former index order, its tail reset; so the state after a prune cycle is
\* a function of the state before it.
C40_StablePrune ==
    Pruned =>
        \A k \in TapeIdx :
            rt.tape[k] = IF k >= KeepIndex /\ ~StableSorted[k].essential
                         THEN ZeroEntry ELSE StableSorted[k]

C40_Witness ==
    /\ Pruned
    /\ \E i, j \in TapeIdx :
          /\ i < j
          /\ Recomputed[i].fitness = Recomputed[j].fitness
          /\ Recomputed[i] # Recomputed[j]
          /\ StableRank(i) < KeepIndex
          /\ rt.tape[StableRank(i)] = Recomputed[i]

ModifyRules(rules, i) == {k \in DOMAIN rules : rules[k].gate = 0 /\ rules[k].a = i}

L2bCalls == 4

MaxL2b == 2

L2bOps == {"l2b_AND", "l2b_OR", "l2b_XOR", "l2b_NAND", "l2b_NOR"}

l2b_apply(op, r, a, b, result) ==
    CASE op = "l2b_AND"  -> l2b_AND(r, a, b, result)
      [] op = "l2b_OR"   -> l2b_OR(r, a, b, result)
      [] op = "l2b_XOR"  -> l2b_XOR(r, a, b, result)
      [] op = "l2b_NAND" -> l2b_NAND(r, a, b, result)
      [] op = "l2b_NOR"  -> l2b_NOR(r, a, b, result)

Call_l2b(op, a, b, result) ==
    Step(Item(op, R_Cell(0, a, b, result), 0), l2b_apply(op, rt, a, b, result), NoRec)

\* The arguments of l2b_maybe_resolve: value, confidence, reasoning.
MaybeInputs ==
    << <<TRUE, (92 * Scale) \div 100, 1>>,
       <<FALSE, (30 * Scale) \div 100, 2>>,
       <<TRUE, Scale, 0>>,
       <<FALSE, 0, 0>> >>

Call_maybe_resolve(k) ==
    /\ maybe' = l2b_maybe_resolve(maybe, MaybeInputs[k][1], MaybeInputs[k][2], MaybeInputs[k][3])
    /\ trace' = Append(trace, Item("maybe_resolve", R_Cell(0, 0, 0, 0), k))
    /\ pre' = rt
    /\ regs' = Append(regs, rt.qubits)
    /\ rec' = NoRec
    /\ UNCHANGED <<rt, cp>>

L2bCount == Cardinality({i \in DOMAIN trace : trace[i].op \in L2bOps})

L2bBudget == Len(trace) < L2bCalls

L2bOpBudget == Len(trace) < L2bCalls /\ L2bCount < MaxL2b

InitL2b == InitWith(3)

NextL2b ==
    \/ L2bOpBudget /\ \E op \in L2bOps : \E a \in Reg3, b \in Reg3, result \in Reg3 :
            a # b /\ a # result /\ b # result /\ Call_l2b(op, a, b, result)
    \/ L2bBudget /\ \E a \in Reg3 : Call_NOT(a)
    \/ L2bBudget /\ Call_checkpoint
    \/ L2bBudget /\ \E k \in DOMAIN MaybeInputs : Call_maybe_resolve(k)

SpecL2b == InitL2b /\ [][NextL2b]_vars

ResolveCalls == {i \in DOMAIN trace : trace[i].op = "maybe_resolve"}

\* C31: a MAYBE is created MAYBE_UNRESOLVED; l2b_maybe_resolve takes it to
\* MAYBE_TRUE when value is true and to MAYBE_FALSE otherwise and stores the
\* confidence; l2b_maybe_is_resolved is true exactly when a resolve call has been
\* made, after which the state is never MAYBE_UNRESOLVED again.
C31_MaybeStateMachine ==
    /\ ResolveCalls = {} =>
          /\ l2b_maybe_get_state(maybe) = MAYBE_UNRESOLVED
          /\ ~l2b_maybe_is_resolved(maybe)
    /\ ResolveCalls # {} =>
          LET k == MaybeInputs[trace[CHOOSE i \in ResolveCalls : \A j \in ResolveCalls : j <= i].idx]
          IN  /\ l2b_maybe_get_state(maybe) = IF k[1] THEN MAYBE_TRUE ELSE MAYBE_FALSE
              /\ maybe.confidence = k[2]
              /\ l2b_maybe_is_resolved(maybe)

C31_Witness ==
    /\ Cardinality(ResolveCalls) >= 2
    /\ LastIs("maybe_resolve")
    /\ ~MaybeInputs[Last.idx][1]
    /\ \E i \in ResolveCalls : MaybeInputs[trace[i].idx][1]
    /\ l2b_maybe_get_state(maybe) = MAYBE_FALSE

\* The Boolean function an L2b operation computes, on register values.
L2bFunction(op, x, y) ==
    LET p == x # 0
        q == y # 0
        v == CASE op = "l2b_AND"  -> p /\ q
               [] op = "l2b_OR"   -> p \/ q
               [] op = "l2b_XOR"  -> p # q
               [] op = "l2b_NAND" -> ~(p /\ q)
               [] op = "l2b_NOR"  -> ~(p \/ q)
    IN  IF v THEN 1 ELSE 0

\* C33: for pairwise distinct a, b, result, an L2b operation leaves in
\* qubits[result] the Boolean function of the values qubits[a] and qubits[b] had
\* before the call and leaves qubits[a] and qubits[b] as they were, whatever
\* qubits[result] was and whatever record_to_tape did with the gates it was made of.
C33_L2bFunctions ==
    trace # <<>> /\ Last.op \in L2bOps =>
        /\ rt.qubits[Last.cell.c] = L2bFunction(Last.op, pre.qubits[Last.cell.a], pre.qubits[Last.cell.b])
        /\ rt.qubits[Last.cell.a] = pre.qubits[Last.cell.a]
        /\ rt.qubits[Last.cell.b] = pre.qubits[Last.cell.b]

C33_Witness ==
    /\ LastIs("l2b_OR")
    /\ pre.qubits[Last.cell.c] = 1
    /\ pre.qubits[Last.cell.a] = 0 /\ pre.qubits[Last.cell.b] = 0
    /\ pre.tape_wrapped
    /\ rt.tape_head = pre.tape_head
    /\ rt.qubits[Last.cell.c] = 0

(***************************************************************************)
(* SpecLive: a caller that keeps issuing gate operations to a 3-cell       *)
(* register. Only the last call is kept of the history, so that the state  *)
(* space is finite; the calls stop once total_ops has reached LiveOps.     *)
(* Weak fairness of the caller's step: as long as a gate call can be       *)
(* issued, one eventually is.                                              *)
(***************************************************************************)
LiveOps == 6

LiveStep(item, after, recinfo) ==
    /\ rt' = after
    /\ pre' = rt
    /\ trace' = <<item>>
    /\ regs' = <<rt.qubits>>
    /\ rec' = recinfo
    /\ UNCHANGED <<cp, maybe>>

Live_CCNOT(a, b, c) ==
    LiveStep(Item("CCNOT", R_Cell(0, a, b, c), 0), l2a_CCNOT(rt, a, b, c),
             RecInfo([rt EXCEPT !.qubits = CCNOT_bits(rt.qubits, a, b, c)], R_Cell(0, a, b, c)))

Live_CNOT(a, b) ==
    LiveStep(Item("CNOT", R_Cell(1, a, b, 0), 0), l2a_CNOT(rt, a, b),
             RecInfo([rt EXCEPT !.qubits = CNOT_bits(rt.qubits, a, b)], R_Cell(1, a, b, 0)))

Live_NOT(a) ==
    LiveStep(Item("NOT", R_Cell(2, a, 0, 0), 0), l2a_NOT(rt, a),
             RecInfo([rt EXCEPT !.qubits = NOT_bits(rt.qubits, a)], R_Cell(2, a, 0, 0)))

Live_SWAP(a, b) ==
    LiveStep(Item("SWAP", R_Cell(3, a, b, 0), 0), l2a_SWAP(rt, a, b),
             RecInfo([rt EXCEPT !.qubits = SWAP_bits(rt.qubits, a, b)], R_Cell(3, a, b, 0)))

LiveCapped == rt.total_ops >= LiveOps

InitLive == InitWith(3)

NextLive ==
    \/ ~LiveCapped /\ Live_CCNOT(0, 1, 2)
    \/ ~LiveCapped /\ Live_CNOT(0, 1)
    \/ ~LiveCapped /\ Live_NOT(0)
    \/ ~LiveCapped /\ Live_SWAP(0, 2)

SpecLive == InitLive /\ [][NextLive]_vars /\ WF_vars(NextLive)

CursorAdvanced == LastIsGate /\ rt.tape_head # pre.tape_head

\* C35: the log never becomes permanently stuck: while the caller keeps issuing
\* gate operations, of any kind and operands, it happens again and again that a
\* record call advances the cursor.
C35_NeverStuck == []<>(CursorAdvanced \/ LiveCapped)

====
